---- MODULE Spec2Model ----
(***************************************************************************)
(* guv: the hub (guv/hubs/abc.py), trampoline and gyield                   *)
(* (guv/hubs/trampoline.py) as a state machine over greenlets; the handles *)
(* and loops of pyuv_cffi (pyuv_cffi/__init__.py) and the green thread     *)
(* count (guv/green/thread.py) as state machines of their own.             *)
(*                                                                         *)
(* Greenlets are numbered: 0 is the main greenlet, 1..NumTasks are the     *)
(* spawned tasks, the next MaxHubs numbers are hub greenlets (the first    *)
(* one made by AbstractHub.__init__, the others by ensure_greenlet), and   *)
(* the last is a child greenlet of main in which the hub may be made.      *)
(* Code that runs between two greenlet switches is one atomic action.      *)
(***************************************************************************)
EXTENDS Integers, Sequences, FiniteSets, TLC

\* ---------------------------------------------------------------- bounds
NumTasks == 2
MaxHubs == 2
NumFds == 1
MaxListeners == 2
MaxTimers == 2
MaxQueue == 3
NumHandles == 2
MaxCloses == 2
NumLoops == 3
NumThreads == 3

\* ------------------------------------------------------------- constants
None == -1
Absent == 0
Main == 0
Tasks == 1..NumTasks
Hubs == (NumTasks + 1)..(NumTasks + MaxHubs)
FirstHub == NumTasks + 1
Child == NumTasks + MaxHubs + 1
Greenlets == {Main} \cup Tasks \cup Hubs \cup {Child}
READ == "READ"
WRITE == "WRITE"
Dirs == {READ, WRITE}
FDs == 1..NumFds
LIds == 1..MaxListeners
TimerIds == 1..MaxTimers
KillExcs == {"TaskExit", "KillError"}
Timeout == "Timeout"
HandleIds == 1..NumHandles
LoopIds == 1..NumLoops
ThreadIds == 1..NumThreads

VARIABLES
    gstate,       \* greenlet -> "absent" | "new" | "running" | "suspended" | "dead"
    parent,       \* greenlet -> its parent greenlet, or None
    current,      \* greenlet.getcurrent()
    hubGreenlet,  \* hub.greenlet
    pc,           \* greenlet -> where it is: "run" | "gyield" | "trampoline" | "switch" | "done"
    tramp,        \* task -> locals of its trampoline call in progress (fd, evtype, timer, listener)
    listeners,    \* hub.listeners: evtype -> fd -> listener id, Absent (no key) or None
    lobj,         \* listener id -> the listener object (evtype, fd, greenlet)
    timers,       \* timer id -> the timer scheduled by schedule_call_global
    callbacks,    \* hub.callbacks: what schedule_call_now queued for the next iteration
    firing,       \* the callbacks the current iteration still has to fire
    phase,        \* the hub loop's position in its iteration
    removed,      \* listener ids hub.remove has been called on (history)
    age,          \* task -> 1 when an iteration began since its gyield (history)
    ahead,        \* task -> greenlets queued before its gyield and not yet dispatched (history)
    killAge,      \* task -> 0 no kill, 1 kill called, 2 next iteration began, 3 its callbacks ran
    last,         \* the last operation and how it ended (history)
    alive,        \* pyuv_cffi.alive: the global list of handles
    handle,       \* handle id -> the Handle (a Poll) object and its libuv handle
    loop,         \* loop id -> the Loop object and its libuv loop
    __threadcount, \* guv.green.thread.__threadcount
    thread        \* green thread id -> where its __thread_body is (history)

vars == <<gstate, parent, current, hubGreenlet, pc, tramp, listeners, lobj, timers,
          callbacks, firing, phase, removed, age, ahead, killAge, last,
          alive, handle, loop, __threadcount, thread>>

\* The hub's state and the scheduler's, and the state of the modules beside the hub.
hubVars == <<gstate, parent, current, hubGreenlet, pc, tramp, listeners, lobj, timers,
             callbacks, firing, phase, removed, age, ahead, killAge>>
uvVars == <<alive, handle, loop>>
threadVars == <<__threadcount, thread>>

\* ------------------------------------------------------ greenlet library
\* greenlet: a switch or throw into a dead greenlet goes to its parent, and so on up.
RECURSIVE LiveAncestor(_, _, _)
LiveAncestor(gs, par, g) ==
    IF g = None THEN None
    ELSE IF gs[g] # "dead" THEN g
    ELSE LiveAncestor(gs, par, par[g])

RECURSIVE Ancestors(_, _)
Ancestors(par, g) ==
    IF par[g] = None THEN {} ELSE {par[g]} \cup Ancestors(par, par[g])

\* greenlet's parent setter raises ValueError when g is on the new parent's chain.
ParentCycle(par, g, newParent) == g \in ({newParent} \cup Ancestors(par, newParent))

\* ------------------------------------------------------ listener registry
NoListener == [evtype |-> "none", fd |-> None, greenlet |-> None]
NoTramp == [fd |-> None, evtype |-> "none", timer |-> None, listener |-> None]

\* AbstractListener.__init__: the owner is the greenlet that is current.
AbstractListener(evtype, fd, cur) == [evtype |-> evtype, fd |-> fd, greenlet |-> cur]

InBucket(bucket, fd) == bucket[fd] # Absent

\* A listener object nobody refers to (it is in no trampoline frame and not in the
\* registry) is garbage: its id is free again.
ReleaseL(lo, ls, tr) ==
    [i \in LIds |->
        IF /\ \A t \in DOMAIN tr : tr[t].listener # i
           /\ \A d \in DOMAIN ls : \A fd \in DOMAIN ls[d] : ls[d][fd] # i
        THEN NoListener ELSE lo[i]]

FreeLIds(lo) == {i \in LIds : lo[i] = NoListener}
NewLId(lo) == CHOOSE i \in FreeLIds(lo) : \A j \in FreeLIds(lo) : i <= j

\* _add_listener without the membership test (overwrites the registered listener).
_add_listener_overwrite(ls, id, l) ==
    [err |-> "none", listeners |-> [ls EXCEPT ![l.evtype][l.fd] = id]]

\* AbstractHub._add_listener: RuntimeError when (evtype, fd) is already a key.
_add_listener(ls, id, l) ==
    IF InBucket(ls[l.evtype], l.fd)
    THEN [err |-> "RuntimeError", listeners |-> ls]
    ELSE [err |-> "none", listeners |-> [ls EXCEPT ![l.evtype][l.fd] = id]]

\* _remove_listener that assigns None to the key and does not delete it.
_remove_listener_keepkey(ls, l) == [ls EXCEPT ![l.evtype][l.fd] = None]

\* AbstractHub._remove_listener: assign None to the key, then delete the key.
_remove_listener(ls, l) ==
    LET assigned == [ls EXCEPT ![l.evtype][l.fd] = None]
    IN  [assigned EXCEPT ![l.evtype][l.fd] = Absent]

\* --------------------------------------------------------------- timers
FreeTimer == [state |-> "free", target |-> None, exc |-> "none"]

FreeTimerIds(tm) == {i \in TimerIds : tm[i].state = "free"}
NewTimerId(tm) == CHOOSE i \in FreeTimerIds(tm) : \A j \in FreeTimerIds(tm) : i <= j

\* hub.schedule_call_global(seconds, cb, *args): an armed one-shot timer; cb is
\* trampoline's _timeout, which carries the greenlet it will throw into.
schedule_call_global(tm, id, target, exc) ==
    [tm EXCEPT ![id] = [state |-> "armed", target |-> target, exc |-> exc]]

\* cancel that leaves the timer armed.
cancel_nothing(tm, id) == tm

\* AbstractTimer.cancel: an armed timer is disarmed, any other is left alone.
cancel(tm, id) ==
    IF tm[id].state = "armed" THEN [tm EXCEPT ![id].state = "cancelled"] ELSE tm

\* A timer object nobody refers to (not armed in the loop, in no trampoline frame)
\* is garbage: its id is free again.
Release(tm, tr) ==
    [i \in TimerIds |->
        IF tm[i].state \in {"fired", "cancelled"} /\ \A t \in Tasks : tr[t].timer # i
        THEN FreeTimer ELSE tm[i]]

\* ------------------------------------------------- pyuv_cffi objects
\* A Handle (a Poll) that has not been constructed. The fields with Python names are
\* the object's attributes; closing, pending (the close callbacks uv_close has been
\* given and the loop has not called yet, each with the user's callback it holds, 0
\* for none) and polling (uv_poll_start is in effect) are the libuv handle's state;
\* lastcall, closes, called and closed are history: the last of start() and stop()
\* that returned normally, the callback each close() call was given (named by the
\* number of the call, 0 for none), the user callbacks invoked, and the times the
\* close callback ran.
NoHandle == [made |-> FALSE, _close_called |-> FALSE, _stop_called |-> FALSE,
             _ffi_cb |-> FALSE, closing |-> FALSE, pending |-> <<>>, polling |-> FALSE,
             lastcall |-> "none", closes |-> <<>>, called |-> <<>>, closed |-> 0]

\* A Loop that has not been constructed. An attribute that was never assigned is
\* "unset"; released counts the pyuv_loop_del calls on its loop_h.
NoLoop == [made |-> "none", _loop_h_allocated |-> "unset", loop_h_allocated |-> "unset",
           released |-> 0]

\* ------------------------------------------------------------- the hub
\* hub.schedule_call_now(cb): queued for the next loop iteration, in call order.
schedule_call_now(cbs, cb) == Append(cbs, cb)

SwitchCb(g) == [kind |-> "switch", g |-> g, exc |-> "none"]
ThrowCb(g, e) == [kind |-> "throw", g |-> g, exc |-> e]

\* hub.add(evtype, fd, cb, tb): make the listener and register it.
hub_add(ls, id, l) == _add_listener(ls, id, l)

\* hub.remove(listener)
hub_remove(ls, l) == _remove_listener(ls, l)

HubState == [greenlet |-> hubGreenlet, gstate |-> gstate, parent |-> parent, err |-> "none"]

FreeHubs(gs) == {h \in Hubs : gs[h] = "absent"}
NewHub(gs) == CHOOSE h \in FreeHubs(gs) : \A k \in FreeHubs(gs) : h <= k

\* ensure_greenlet that makes the new hub greenlet but leaves the dead one's parent alone.
ensure_greenlet_noreparent(h) ==
    IF h.gstate[h.greenlet] = "dead"
    THEN LET new == NewHub(h.gstate)
         IN  [h EXCEPT !.greenlet = new,
                       !.gstate = [h.gstate EXCEPT ![new] = "new"],
                       !.parent = [h.parent EXCEPT ![new] = h.parent[h.greenlet]]]
    ELSE h

\* AbstractHub.ensure_greenlet
ensure_greenlet(h) ==
    IF h.gstate[h.greenlet] = "dead"
    THEN LET new == NewHub(h.gstate)
         IN  [h EXCEPT !.greenlet = new,
                       !.gstate = [h.gstate EXCEPT ![new] = "new"],
                       !.parent = [h.parent EXCEPT ![new] = h.parent[h.greenlet],
                                                   ![h.greenlet] = new]]
    ELSE h

\* switch without the assertion on the caller.
switch_noassert(h, cur) ==
    LET e == ensure_greenlet(h)
    IN  IF e.parent[e.greenlet] # cur /\ ~ParentCycle(e.parent, cur, e.greenlet)
        THEN [e EXCEPT !.parent = [e.parent EXCEPT ![cur] = e.greenlet]]
        ELSE e

\* switch that sets the caller's parent whenever the caller is not the hub's parent.
switch_nocyclecheck(h, cur) ==
    IF cur = h.greenlet
    THEN [h EXCEPT !.err = "AssertionError"]
    ELSE LET e == ensure_greenlet(h)
         IN  IF e.parent[e.greenlet] # cur
             THEN [e EXCEPT !.parent = [e.parent EXCEPT ![cur] = e.greenlet]]
             ELSE e

\* AbstractHub.switch up to the transfer of control: the assertion, ensure_greenlet,
\* and the caller's new parent (ValueError on a parent cycle is swallowed).
switch(h, cur) ==
    IF cur = h.greenlet
    THEN [h EXCEPT !.err = "AssertionError"]
    ELSE LET e == ensure_greenlet(h)
         IN  IF e.parent[e.greenlet] # cur /\ ~ParentCycle(e.parent, cur, e.greenlet)
             THEN [e EXCEPT !.parent = [e.parent EXCEPT ![cur] = e.greenlet]]
             ELSE e

\* ensure_greenlet can make a hub greenlet only while the model has numbers left.
CanEnsure == gstate[hubGreenlet] # "dead" \/ FreeHubs(gstate) # {}

\* self.greenlet.switch(): the caller is suspended and the hub greenlet runs; a hub
\* greenlet that never ran starts run() at the top of the loop.
EnterHub(cur, s, where) ==
    /\ gstate' = [s.gstate EXCEPT ![cur] = "suspended", ![s.greenlet] = "running"]
    /\ parent' = s.parent
    /\ hubGreenlet' = s.greenlet
    /\ current' = s.greenlet
    /\ pc' = [pc EXCEPT ![cur] = where]
    /\ phase' = IF s.gstate[s.greenlet] = "new" THEN "start" ELSE phase
    /\ firing' = IF s.gstate[s.greenlet] = "new" THEN <<>> ELSE firing

\* The history record of the last operation: what, by or on which greenlet, where
\* that greenlet was, how it ended, what caused it, and the timer or listener id.
Op(op, g, at, res, via, n) ==
    [op |-> op, g |-> g, at |-> at, res |-> res, via |-> via, n |-> n]

ResetT(f, g, v) == IF g \in Tasks THEN [f EXCEPT ![g] = v] ELSE f

\* ---------------------------------------------------------- trampoline
\* The hub object (what get_hub() returns), which is no greenlet.
HubObject == -2

\* trampoline's "assert hub is not current": hub is the hub object and current a
\* greenlet, so the two are never the same object.
trampoline_precondition(hubObject, cur) == hubObject # cur


\* _timeout that throws into the greenlet running when the timer fires.
_timeout_running(captured, running) == running

\* trampoline._timeout: current.throw(exc), current being the caller of trampoline.
_timeout(captured, running) == captured

\* The outer finally without the cancel.
trampoline_finally_timer_nocancel(tm, timer) == tm

\* trampoline's outer finally: cancel the timer if one was scheduled.
trampoline_finally_timer(tm, timer) ==
    IF timer # None THEN cancel(tm, timer) ELSE tm

\* The inner finally that removes nothing.
trampoline_finally_listener_noremove(ls, l) == ls

\* trampoline's inner finally: hub.remove(listener).
trampoline_finally_listener(ls, l) == hub_remove(ls, l)

\* gyield that puts its resumption at the front of the queue.
gyield_schedule_front(cbs, cur) == <<SwitchCb(cur)>> \o cbs

\* gyield that switches to the hub without scheduling its own resumption.
gyield_schedule_nothing(cbs, cur) == cbs

\* gyield: hub.schedule_call_now(current.switch)
gyield_schedule(cbs, cur) == schedule_call_now(cbs, SwitchCb(cur))

\* ------------------------------------------------- entering a greenlet
\* The hub greenlet (current) calls g.switch() (e = "none") or g.throw(e).
\* A suspended greenlet goes on where it called hub.switch(): a trampoline call runs
\* its two finally clauses, then returns or raises. A task in which an exception is
\* raised dies of it, unless it is a trampoline timeout that the task's code catches
\* (h). n is the timer or listener whose callback this is; tm and ah are the timers and the ahead sets as the caller leaves them.
Deliver(g, e, via, n, tm, ah, h) ==
    LET st == gstate[g]
        inTramp == st = "suspended" /\ pc[g] = "trampoline"
        fr == tramp[g]
        survives == e = "none" \/ (e \notin KillExcs /\ h)
        tr1 == IF inTramp THEN [tramp EXCEPT ![g] = NoTramp] ELSE tramp
    IN
    IF st = "suspended"
    THEN /\ listeners' = IF inTramp
                         THEN trampoline_finally_listener(listeners, lobj[fr.listener])
                         ELSE listeners
         /\ lobj' = ReleaseL(lobj, listeners', tr1)
         /\ timers' = Release(IF inTramp THEN trampoline_finally_timer(tm, fr.timer) ELSE tm,
                              tr1)
         /\ tramp' = tr1
         /\ IF survives
            THEN /\ gstate' = [gstate EXCEPT ![current] = "suspended", ![g] = "running"]
                 /\ current' = g
                 /\ pc' = [pc EXCEPT ![g] = "run"]
            ELSE /\ gstate' = [gstate EXCEPT ![g] = "dead"]
                 /\ current' = current
                 /\ pc' = [pc EXCEPT ![g] = "done"]
         /\ age' = ResetT(age, g, 0)
         /\ ahead' = ResetT(ah, g, {})
         /\ last' = Op("wake", g, pc[g], IF e = "none" THEN "returned" ELSE e, via, n)
    ELSE IF st = "new" /\ e = "none"
    THEN \* the first switch into a spawned task starts its body
         /\ gstate' = [gstate EXCEPT ![current] = "suspended", ![g] = "running"]
         /\ current' = g
         /\ pc' = [pc EXCEPT ![g] = "run"]
         /\ timers' = Release(tm, tramp)
         /\ ahead' = ah
         /\ last' = Op("start", g, "new", "returned", via, n)
         /\ UNCHANGED <<listeners, lobj, tramp, age>>
    ELSE \* a dead greenlet (or the hub itself): greenlet redirects the switch or throw
         \* to the first live ancestor, the hub greenlet that is running; a thrown
         \* exception is raised in the hub's callback, which squelches it.
         /\ timers' = Release(tm, tramp)
         /\ ahead' = ah
         /\ last' = Op("stale", g, gstate[g], IF e = "none" THEN "returned" ELSE e, via, n)
         /\ UNCHANGED <<gstate, current, pc, listeners, lobj, tramp, age>>

\* A task's body ends (it returns, or an exception leaves it): the greenlet is dead
\* and control goes to its first live ancestor, the hub greenlet.
Die(t) ==
    /\ gstate' = [gstate EXCEPT ![t] = "dead",
                                ![LiveAncestor(gstate, parent, parent[t])] = "running"]
    /\ current' = LiveAncestor(gstate, parent, parent[t])
    /\ pc' = [pc EXCEPT ![t] = "done"]

\* -------------------------------------------------------------- actions
InUserCode(g) == current = g /\ gstate[g] = "running" /\ pc[g] = "run"
InHub == current = hubGreenlet /\ gstate[hubGreenlet] = "running"

\* gyield() called by task t.
Gyield(t) ==
    /\ InUserCode(t)
    /\ CanEnsure
    /\ Len(callbacks) < MaxQueue
    /\ LET s == switch(HubState, t)
       IN  /\ s.err = "none"
           /\ callbacks' = gyield_schedule(callbacks, t)
           /\ EnterHub(t, s, "gyield")
    /\ age' = [age EXCEPT ![t] = 0]
    /\ ahead' = [ahead EXCEPT ![t] =
                    {callbacks[i].g : i \in {j \in 1..Len(callbacks) : callbacks[j].kind = "switch"}}
                    \cup {firing[i].g : i \in {j \in 1..Len(firing) : firing[j].kind = "switch"}}]
    /\ last' = Op("gyield", t, "run", "ok", "none", None)
    /\ UNCHANGED <<tramp, listeners, lobj, timers, removed, killAge>>
    /\ UNCHANGED <<uvVars, threadVars>>

\* trampoline(fd, evtype, timeout) called by task t; w: a timeout is given; h: the
\* task's code catches the RuntimeError of a duplicate listener.
Trampoline(t, fd, evtype, w, h) ==
    /\ InUserCode(t)
    /\ CanEnsure
    /\ trampoline_precondition(HubObject, t)
    /\ w => FreeTimerIds(timers) # {}
    /\ FreeLIds(lobj) # {}
    /\ LET tid == IF w THEN NewTimerId(timers) ELSE None
           tm0 == IF w THEN schedule_call_global(timers, tid, t, Timeout) ELSE timers
           lid == NewLId(lobj)
           l == AbstractListener(evtype, fd, t)
           a == hub_add(listeners, lid, l)
           s == switch(HubState, t)
       IN  IF a.err # "none"
           THEN \* hub.add raised: the outer finally runs and the error leaves trampoline
                /\ timers' = Release(trampoline_finally_timer(tm0, tid), tramp)
                /\ listeners' = a.listeners
                /\ IF h THEN UNCHANGED <<gstate, current, pc>> ELSE Die(t)
                /\ last' = Op("trampoline", t, "run", a.err, IF w THEN "timeout" ELSE "none", None)
                /\ UNCHANGED <<parent, hubGreenlet, tramp, lobj, phase, firing>>
           ELSE /\ s.err = "none"
                /\ timers' = tm0
                /\ listeners' = a.listeners
                /\ lobj' = [lobj EXCEPT ![lid] = l]
                /\ tramp' = [tramp EXCEPT ![t] = [fd |-> fd, evtype |-> evtype,
                                                  timer |-> tid, listener |-> lid]]
                /\ EnterHub(t, s, "trampoline")
                /\ last' = Op("trampoline", t, "run", "ok", IF w THEN "timeout" ELSE "none", None)
    /\ UNCHANGED <<callbacks, removed, age, ahead, killAge>>
    /\ UNCHANGED <<uvVars, threadVars>>

\* The task's body returns.
TaskReturn(t) ==
    /\ t \in Tasks
    /\ InUserCode(t)
    /\ Die(t)
    /\ last' = Op("return", t, "run", "ok", "none", None)
    /\ UNCHANGED <<parent, hubGreenlet, tramp, listeners, lobj, timers, callbacks, firing,
                   phase, removed, age, ahead, killAge>>
    /\ UNCHANGED <<uvVars, threadVars>>

\* The child greenlet of main ends: control goes to its parent, the main greenlet,
\* where the hub.switch() it is suspended in returns.
ChildReturn ==
    /\ InUserCode(Child)
    /\ LET p == LiveAncestor(gstate, parent, parent[Child])
       IN  /\ gstate' = [gstate EXCEPT ![Child] = "dead", ![p] = "running"]
           /\ current' = p
           /\ pc' = [pc EXCEPT ![Child] = "done", ![p] = "run"]
    /\ last' = Op("return", Child, "run", "ok", "none", None)
    /\ UNCHANGED <<parent, hubGreenlet, tramp, listeners, lobj, timers, callbacks, firing,
                   phase, removed, age, ahead, killAge>>
    /\ UNCHANGED <<uvVars, threadVars>>

\* trampoline(fd, evtype, timeout) called by code that runs in the hub greenlet (a
\* callback of the loop that calls a blocking function); w: a timeout is given. The
\* call goes as far as hub.add or hub.switch() lets it, and its finally clauses run.
\* The record says where the exception was raised and which listener it had registered.
TrampolineFromHub(fd, evtype, w) ==
    /\ InHub
    /\ w => FreeTimerIds(timers) # {}
    /\ FreeLIds(lobj) # {}
    /\ LET cur == hubGreenlet
           tid == IF w THEN NewTimerId(timers) ELSE None
           tm0 == IF w THEN schedule_call_global(timers, tid, cur, Timeout) ELSE timers
           lid == NewLId(lobj)
           l == AbstractListener(evtype, fd, cur)
           a == hub_add(listeners, lid, l)
           s == switch(HubState, cur)
       IN  IF ~trampoline_precondition(HubObject, cur)
           THEN /\ last' = Op("hub_trampoline", cur, "precondition", "AssertionError",
                               "none", None)
                /\ UNCHANGED <<listeners, lobj, timers>>
           ELSE IF a.err # "none"
           THEN /\ listeners' = a.listeners
                /\ timers' = Release(trampoline_finally_timer(tm0, tid), tramp)
                /\ last' = Op("hub_trampoline", cur, "add", a.err,
                               IF w THEN "timeout" ELSE "none", None)
                /\ UNCHANGED lobj
           ELSE /\ s.err # "none"
                /\ listeners' = trampoline_finally_listener(a.listeners, l)
                /\ lobj' = ReleaseL([lobj EXCEPT ![lid] = l], listeners', tramp)
                /\ timers' = Release(trampoline_finally_timer(tm0, tid), tramp)
                /\ last' = Op("hub_trampoline", cur, "switch", s.err,
                               IF w THEN "timeout" ELSE "none", lid)
    /\ UNCHANGED <<gstate, parent, current, hubGreenlet, pc, tramp, callbacks, firing, phase,
                   removed, age, ahead, killAge>>
    /\ UNCHANGED <<uvVars, threadVars>>

\* kill(t, e) called by greenlet c: nothing for a dead task; a suspended task gets e
\* thrown into it by the hub on the next iteration.
Kill(c, t, e) ==
    /\ InUserCode(c)
    /\ t # c
    /\ gstate[t] \in {"suspended", "dead"}
    /\ IF gstate[t] = "dead"
       THEN /\ last' = Op("kill", t, "dead", "noop", "none", None)
            /\ UNCHANGED <<callbacks, killAge>>
       ELSE /\ Len(callbacks) < MaxQueue
            /\ callbacks' = schedule_call_now(callbacks, ThrowCb(t, e))
            /\ killAge' = [killAge EXCEPT ![t] = IF @ = 0 THEN 1 ELSE @]
            /\ last' = Op("kill", t, pc[t], e, "none", None)
    /\ UNCHANGED <<gstate, parent, current, hubGreenlet, pc, tramp, listeners, lobj, timers,
                   firing, phase, removed, age, ahead>>
    /\ UNCHANGED <<uvVars, threadVars>>

\* hub.switch() called directly: by the main greenlet or its child, or by code
\* running in the hub greenlet itself (the assertion fails and nothing has happened).
CallSwitch(g) ==
    /\ \/ g \in {Main, Child} /\ InUserCode(g)
       \/ g = hubGreenlet /\ InHub
    /\ CanEnsure
    /\ LET s == switch(HubState, g)
       IN  IF s.err # "none"
           THEN /\ last' = Op("switch", g, "hub", s.err, "none", None)
                /\ UNCHANGED <<gstate, parent, current, hubGreenlet, pc, phase, firing>>
           ELSE /\ EnterHub(g, s, "switch")
                /\ last' = Op("switch", g, pc[g], "ok",
                               IF gstate[hubGreenlet] = "dead" THEN "resurrect" ELSE "none",
                               None)
    /\ UNCHANGED <<tramp, listeners, lobj, timers, callbacks, removed, age, ahead, killAge>>
    /\ UNCHANGED <<uvVars, threadVars>>

\* ---------------------------------------------------------- the hub loop
\* run(): an iteration fires the callbacks queued by schedule_call_now before it
\* began, then the expired timers, then polls and dispatches readiness.

\* The iteration begins: the queued callbacks are taken, the queue is empty again.
BeginIteration ==
    /\ InHub
    /\ phase \in {"start", "io"}
    /\ firing' = callbacks
    /\ callbacks' = <<>>
    /\ phase' = "callbacks"
    /\ age' = [t \in Tasks |->
                 IF gstate[t] = "suspended" /\ pc[t] = "gyield" THEN 1 ELSE age[t]]
    /\ killAge' = [t \in Tasks |-> IF killAge[t] = 1 THEN 2 ELSE killAge[t]]
    /\ last' = Op("iteration", hubGreenlet, "hub", "ok", "none", None)
    /\ UNCHANGED <<gstate, parent, current, hubGreenlet, pc, tramp, listeners, lobj, timers,
                   removed, ahead>>
    /\ UNCHANGED <<uvVars, threadVars>>

\* The next queued callback is called: a task's switch (gyield, spawn) or kill's throw.
FireCallback(h) ==
    /\ InHub
    /\ phase = "callbacks"
    /\ firing # <<>>
    /\ LET cb == Head(firing)
       IN  /\ firing' = Tail(firing)
           /\ Deliver(cb.g, cb.exc, IF cb.kind = "switch" THEN "callback" ELSE "kill",
                      None, timers,
                      IF cb.kind = "switch"
                      THEN [t \in Tasks |-> ahead[t] \ {cb.g}] ELSE ahead,
                      h)
    /\ UNCHANGED <<parent, hubGreenlet, callbacks, phase, removed, killAge>>
    /\ UNCHANGED <<uvVars, threadVars>>

EndCallbacks ==
    /\ InHub
    /\ phase = "callbacks"
    /\ firing = <<>>
    /\ phase' = "timers"
    /\ killAge' = [t \in Tasks |-> IF killAge[t] = 2 THEN 3 ELSE killAge[t]]
    /\ last' = Op("timers", hubGreenlet, "hub", "ok", "none", None)
    /\ UNCHANGED <<gstate, parent, current, hubGreenlet, pc, tramp, listeners, lobj, timers,
                   callbacks, firing, removed, age, ahead>>
    /\ UNCHANGED <<uvVars, threadVars>>

\* An armed timer expires: its callback _timeout(exc) throws into the trampoline caller.
FireTimer(id, h) ==
    /\ InHub
    /\ phase = "timers"
    /\ timers[id].state = "armed"
    /\ Deliver(_timeout(timers[id].target, current), timers[id].exc, "timer", id,
               [timers EXCEPT ![id].state = "fired"], ahead, h)
    /\ UNCHANGED <<parent, hubGreenlet, callbacks, firing, phase, removed, killAge>>
    /\ UNCHANGED <<uvVars, threadVars>>

EndTimers ==
    /\ InHub
    /\ phase = "timers"
    /\ phase' = "io"
    /\ last' = Op("poll", hubGreenlet, "hub", "ok", "none", None)
    /\ UNCHANGED <<gstate, parent, current, hubGreenlet, pc, tramp, listeners, lobj, timers,
                   callbacks, firing, removed, age, ahead, killAge>>
    /\ UNCHANGED <<uvVars, threadVars>>

\* The poller reports (evtype, fd) ready: the registered listener's cb, the waiting
\* task's switch, is called.
Ready(evtype, fd) ==
    /\ InHub
    /\ phase = "io"
    /\ InBucket(listeners[evtype], fd)
    /\ listeners[evtype][fd] # None
    /\ Deliver(lobj[listeners[evtype][fd]].greenlet, "none", "ready", listeners[evtype][fd],
               timers, ahead, FALSE)
    /\ UNCHANGED <<parent, hubGreenlet, callbacks, firing, phase, removed, killAge>>
    /\ UNCHANGED <<uvVars, threadVars>>

\* The loop lets an exception through at the end of an iteration: the hub greenlet is
\* dead and the exception is raised in its parent, at the parent's hub.switch().
HubDie ==
    /\ InHub
    /\ phase = "io"
    /\ FreeHubs(gstate) # {}
    /\ LET p == LiveAncestor(gstate, parent, parent[hubGreenlet])
       IN  /\ p # None
           /\ gstate' = [gstate EXCEPT ![hubGreenlet] = "dead", ![p] = "running"]
           /\ current' = p
           /\ pc' = [pc EXCEPT ![p] = "run"]
    /\ phase' = "start"
    /\ last' = Op("hubdie", hubGreenlet, "hub", "HubError", "none", None)
    /\ UNCHANGED <<parent, hubGreenlet, tramp, listeners, lobj, timers, callbacks, firing,
                   removed, age, ahead, killAge>>
    /\ UNCHANGED <<uvVars, threadVars>>

\* ------------------------------------------------------- specification
\* AbstractHub.__init__ has run and the tasks are spawned: each is a new greenlet,
\* child of the hub greenlet, with its first switch queued. The hub was made in the
\* main greenlet, or in a child greenlet of main that has switched back to main
\* (inChild): the hub greenlet's parent is the greenlet that made it.
RECURSIVE Spawned(_)
Spawned(n) == IF n = 0 THEN <<>> ELSE Append(Spawned(n - 1), SwitchCb(n))

InitIn(inChild) ==
    /\ gstate = [g \in Greenlets |->
                   IF g = Main THEN "running"
                   ELSE IF g \in Tasks \/ g = FirstHub THEN "new"
                   ELSE IF g = Child /\ inChild THEN "suspended"
                   ELSE "absent"]
    /\ parent = [g \in Greenlets |->
                   IF g \in Tasks THEN FirstHub
                   ELSE IF g = FirstHub THEN (IF inChild THEN Child ELSE Main)
                   ELSE IF g = Child /\ inChild THEN Main
                   ELSE None]
    /\ current = Main
    /\ hubGreenlet = FirstHub
    /\ pc = [g \in Greenlets |-> IF g \in Hubs THEN "hub" ELSE "run"]
    /\ tramp = [t \in Tasks |-> NoTramp]
    /\ listeners = [d \in Dirs |-> [fd \in FDs |-> Absent]]
    /\ lobj = [i \in LIds |-> NoListener]
    /\ timers = [i \in TimerIds |-> FreeTimer]
    /\ callbacks = Spawned(NumTasks)
    /\ firing = <<>>
    /\ phase = "start"
    /\ removed = {}
    /\ age = [t \in Tasks |-> 0]
    /\ ahead = [t \in Tasks |-> {}]
    /\ killAge = [t \in Tasks |-> 0]
    /\ last = Op("init", Main, "run", "ok", "none", None)
    /\ alive = <<>>
    /\ handle = [i \in HandleIds |-> NoHandle]
    /\ loop = [i \in LoopIds |-> NoLoop]
    /\ __threadcount = 0
    /\ thread = [i \in ThreadIds |-> "none"]

\* The hub was made in the main greenlet.
Init == InitIn(FALSE)

Next ==
    \/ \E t \in Tasks : Gyield(t)
    \/ \E t \in Tasks, fd \in FDs, d \in Dirs, w \in BOOLEAN, h \in BOOLEAN :
          Trampoline(t, fd, d, w, h)
    \/ \E t \in Tasks : TaskReturn(t)
    \/ \E c \in Tasks \cup {Main}, t \in Tasks, e \in KillExcs : Kill(c, t, e)
    \/ \E g \in {Main, hubGreenlet} : CallSwitch(g)
    \/ BeginIteration
    \/ \E h \in BOOLEAN : FireCallback(h)
    \/ EndCallbacks
    \/ \E id \in TimerIds, h \in BOOLEAN : FireTimer(id, h)
    \/ EndTimers
    \/ \E d \in Dirs, fd \in FDs : Ready(d, fd)
    \/ HubDie

Spec == Init /\ [][Next]_vars

\* The same, with the hub made in the main greenlet or in its child, which runs when
\* the hub greenlet dies.
NextChild ==
    \/ Next
    \/ CallSwitch(Child)
    \/ ChildReturn

InitAny == \E inChild \in BOOLEAN : InitIn(inChild)

SpecChild == InitAny /\ [][NextChild]_vars

\* The same as Spec, with code in the hub greenlet that calls trampoline.
NextHubCalls ==
    \/ Next
    \/ \E fd \in FDs, d \in Dirs, w \in BOOLEAN : TrampolineFromHub(fd, d, w)

SpecHubCalls == Init /\ [][NextHubCalls]_vars

\* ------------------------------------------------------------- sanity
TypeOK ==
    /\ gstate \in [Greenlets -> {"absent", "new", "running", "suspended", "dead"}]
    /\ current \in Greenlets
    /\ hubGreenlet \in Hubs
    /\ gstate[current] = "running"
    /\ gstate[hubGreenlet] # "dead" =>
          \A t \in Tasks : LiveAncestor(gstate, parent, parent[t]) = hubGreenlet

\* ------------------------------------------- the registry on its own
\* Tasks call hub.add and hub.remove directly, in any order; a task keeps the
\* listeners hub.add returned to it and may call hub.remove on any of them, also
\* one it has removed before.
schedVars == <<gstate, parent, current, hubGreenlet, pc, tramp, timers, callbacks, firing,
               phase, age, ahead, killAge>>

\* hub.add(evtype, fd, cb, tb) called by task t.
RegAdd(t, evtype, fd) ==
    /\ FreeLIds(lobj) # {}
    /\ LET lid == NewLId(lobj)
           l == AbstractListener(evtype, fd, t)
           a == hub_add(listeners, lid, l)
       IN  /\ listeners' = a.listeners
           /\ lobj' = IF a.err = "none" THEN [lobj EXCEPT ![lid] = l] ELSE lobj
           /\ last' = [op |-> "add", g |-> t, evtype |-> evtype, fd |-> fd, id |-> lid,
                       res |-> a.err]
    /\ UNCHANGED removed
    /\ UNCHANGED schedVars
    /\ UNCHANGED <<uvVars, threadVars>>

\* hub.remove(listener) called on a listener object some task holds.
RegRemove(id) ==
    /\ lobj[id] # NoListener
    /\ listeners' = hub_remove(listeners, lobj[id])
    /\ removed' = removed \cup {id}
    /\ last' = [op |-> "remove", g |-> lobj[id].greenlet, evtype |-> lobj[id].evtype,
                fd |-> lobj[id].fd, id |-> id, res |-> "none"]
    /\ UNCHANGED lobj
    /\ UNCHANGED schedVars
    /\ UNCHANGED <<uvVars, threadVars>>

\* A task forgets a listener it has removed and that the registry does not hold.
RegForget(id) ==
    /\ id \in removed
    /\ listeners[lobj[id].evtype][lobj[id].fd] # id
    /\ lobj' = [lobj EXCEPT ![id] = NoListener]
    /\ removed' = removed \ {id}
    /\ last' = [op |-> "forget", g |-> lobj[id].greenlet, evtype |-> lobj[id].evtype,
                fd |-> lobj[id].fd, id |-> id, res |-> "none"]
    /\ UNCHANGED listeners
    /\ UNCHANGED schedVars
    /\ UNCHANGED <<uvVars, threadVars>>

RegNext ==
    \/ \E t \in Tasks, d \in Dirs, fd \in FDs : RegAdd(t, d, fd)
    \/ \E id \in LIds : RegRemove(id)
    \/ \E id \in LIds : RegForget(id)

SpecReg == Init /\ [][RegNext]_vars

\* The listener ids the registry holds for (evtype, fd).
Registered(ls, evtype, fd) == {i \in LIds : ls[evtype][fd] = i}

\* C1: the registry holds at most one listener for each (direction, fd); an add for
\* a pair that is registered raises RuntimeError at once and installs nothing (the
\* registry, and so the listener registered before, is as it was); an add for a
\* pair that is not registered installs exactly the new listener.
C1_OnePerPair ==
    [][ /\ \A d \in Dirs, fd \in FDs : Cardinality(Registered(listeners', d, fd)) <= 1
        /\ last'.op = "add" =>
             IF InBucket(listeners[last'.evtype], last'.fd)
             THEN last'.res = "RuntimeError" /\ listeners' = listeners /\ lobj' = lobj
             ELSE /\ last'.res = "none"
                  /\ Registered(listeners', last'.evtype, last'.fd) = {last'.id}
                  /\ \A d \in Dirs, fd \in FDs :
                        <<d, fd>> # <<last'.evtype, last'.fd>> =>
                            listeners'[d][fd] = listeners[d][fd] ]_vars

\* C1 witness: an add for a registered pair has just raised.
C1_Witness ==
    /\ last.op = "add"
    /\ last.res = "RuntimeError"
    /\ InBucket(listeners[last.evtype], last.fd)

\* C6: a second remove of the same listener raises no error and leaves the registry
\* exactly as it was, so the listeners registered in the meantime stay registered.
C6_SecondRemoveKeepsRegistry ==
    [][ (last'.op = "remove" /\ last'.id \in removed) =>
            (last'.res = "none" /\ listeners' = listeners) ]_vars

\* ------------------------------------------------ trampoline's claims
InTrampoline(t) == gstate[t] = "suspended" /\ pc[t] = "trampoline"

\* C2: a completed trampoline call leaves nothing behind, however it ended: every
\* listener in the registry and every armed timer belongs to a trampoline call that
\* is still in progress (its caller is suspended in it).
C2_NothingLeftBehind ==
    /\ \A id \in TimerIds :
          timers[id].state = "armed" =>
              \E t \in Tasks : InTrampoline(t) /\ tramp[t].timer = id
    /\ \A d \in Dirs, fd \in FDs :
          InBucket(listeners[d], fd) =>
              \E t \in Tasks : /\ InTrampoline(t)
                               /\ tramp[t].listener = listeners[d][fd]
                               /\ tramp[t].evtype = d
                               /\ tramp[t].fd = fd

\* C2 witness: a trampoline call with a timeout has just ended by its timer.
C2_Witness ==
    /\ last.op = "wake"
    /\ last.at = "trampoline"
    /\ last.via = "timer"
    /\ last.res = Timeout

\* C3: a trampoline call for a (direction, fd) that has a listener raises the
\* registration error to its caller, leaves no timer of its own pending, installs
\* no listener and leaves the registered listener as it was; a call that goes on to
\* wait was made for a pair without a listener.
C3_DuplicateTrampoline ==
    [][ last'.op = "trampoline" =>
          IF last'.res = "ok"
          THEN LET fr == tramp'[last'.g]
               IN  /\ ~InBucket(listeners[fr.evtype], fr.fd)
                   /\ listeners'[fr.evtype][fr.fd] = fr.listener
          ELSE /\ last'.res = "RuntimeError"
               /\ listeners' = listeners
               /\ lobj' = lobj
               /\ tramp' = tramp
               /\ \A id \in TimerIds :
                     timers'[id].state = "armed" => timers[id] = timers'[id] ]_vars

\* C3 witness: a trampoline call with a timeout has just raised the registration
\* error while another task's listener is registered.
C3_Witness ==
    /\ last.op = "trampoline"
    /\ last.res = "RuntimeError"
    /\ last.via = "timeout"
    /\ \E t \in Tasks : t # last.g /\ InTrampoline(t)

\* C4: a trampoline call of task T ends by returning exactly when the listener it
\* registered is reported ready, and by raising the timeout exception exactly when
\* the timer it scheduled expires; an expiring trampoline timer throws into the task
\* that scheduled it, which is suspended in that call, and into no other greenlet.
C4_ReadyReturnsTimerRaises ==
    [][ /\ \A t \in Tasks :
              (InTrampoline(t) /\ pc'[t] # "trampoline") =>
                  /\ last'.op = "wake" /\ last'.g = t
                  /\ (last'.res = "returned") <=>
                        (last'.via = "ready" /\ last'.n = tramp[t].listener)
                  /\ (last'.res = Timeout) <=>
                        (last'.via = "timer" /\ last'.n = tramp[t].timer)
        /\ last'.via = "timer" =>
              /\ last'.op = "wake"
              /\ last'.at = "trampoline"
              /\ last'.res = Timeout
              /\ timers[last'.n].target = last'.g
              /\ tramp[last'.g].timer = last'.n ]_vars

\* C4 witness: a trampoline call has just returned on readiness while another
\* task's call, with a timeout, is still waiting.
C4_Witness ==
    /\ last.op = "wake"
    /\ last.at = "trampoline"
    /\ last.via = "ready"
    /\ last.res = "returned"
    /\ \E t \in Tasks : t # last.g /\ InTrampoline(t) /\ tramp[t].timer # None

\* --------------------------------------------------- hub.switch's claims
SwitchEntered == last'.op \in {"switch", "gyield", "trampoline"} /\ last'.res = "ok"

\* C5: a hub.switch() made while the hub greenlet is dead makes a new hub greenlet
\* whose parent is the dead one's parent, makes the new one the parent of the dead
\* one and the hub's greenlet, and control goes to it: after any switch() the hub's
\* greenlet is alive, and whoever had the dead hub greenlet as an ancestor has the new
\* one as an ancestor. With the hub greenlet alive, the hub's greenlet stays the
\* same and only the caller's parent may change.
C5_Resurrection ==
    [][ SwitchEntered =>
          /\ gstate'[hubGreenlet'] = "running"
          /\ current' = hubGreenlet'
          /\ IF gstate[hubGreenlet] = "dead"
             THEN /\ hubGreenlet' # hubGreenlet
                  /\ gstate[hubGreenlet'] = "absent"
                  /\ parent'[hubGreenlet'] = parent[hubGreenlet]
                  /\ parent'[hubGreenlet] = hubGreenlet'
                  /\ \A g \in Greenlets :
                        hubGreenlet \in Ancestors(parent, g) =>
                            hubGreenlet' \in Ancestors(parent', g)
             ELSE /\ hubGreenlet' = hubGreenlet
                  /\ \A g \in Greenlets \ {last'.g} : parent'[g] = parent[g]
                  /\ \A g \in Hubs \ {hubGreenlet} : gstate'[g] = gstate[g] ]_vars

\* C5 witness: a switch() has just resurrected the hub while tasks that were children
\* of the dead hub greenlet are suspended.
C5_Witness ==
    /\ last.op = "switch"
    /\ last.via = "resurrect"
    /\ \E t \in Tasks : gstate[t] = "suspended" /\ parent[t] # hubGreenlet

\* C7: hub.switch() called from the hub greenlet fails its assertion before anything
\* has changed: the hub's greenlet, every parent, the registry and the running
\* greenlet are as before; no switch() by the hub greenlet goes through.
C7_NoSwitchFromHub ==
    [][ (last'.op = "switch" /\ last'.g = hubGreenlet) =>
          /\ last'.res = "AssertionError"
          /\ UNCHANGED <<gstate, parent, current, hubGreenlet, pc, tramp, listeners, lobj,
                         timers, callbacks, firing, phase>> ]_vars

\* C7 witness: the hub greenlet has just called switch() while a task waits in a
\* trampoline call.
C7_Witness ==
    /\ last.op = "switch"
    /\ last.g = hubGreenlet
    /\ last.res = "AssertionError"
    /\ \E t \in Tasks : InTrampoline(t)

\* -------------------------------------------------- the tasks' claims
Running == {g \in Greenlets : gstate[g] = "running"}

\* The last callback the hub called was aimed at a dead task.
DispatchedIntoDead(vias) == last.op = "stale" /\ last.g \in Tasks /\ last.via \in vias

\* C8 as claimed: no callback the hub dispatches (gyield's resume, a listener's
\* continuation, a trampoline timer) switches or throws into a task that has died,
\* and at most one greenlet is running.
C8_NoCallbackIntoDead ==
    /\ ~DispatchedIntoDead({"callback", "ready", "timer"})
    /\ Cardinality(Running) <= 1

\* C8 amended: a dead task never runs again and at most one greenlet is running; no
\* listener continuation and no trampoline timer is ever called for a dead task.
\* (The resume that gyield queued stays queued when the task is killed: the hub
\* calls switch() on the dead task, which does not enter it.)
C8_DeadNeverRuns ==
    /\ [](Cardinality(Running) <= 1 /\ ~DispatchedIntoDead({"ready", "timer"}))
    /\ [][ \A g \in Greenlets :
              gstate[g] = "dead" =>
                  /\ gstate'[g] = "dead"
                  /\ pc'[g] = pc[g]
                  /\ current' # g ]_vars

\* C8 witness: the hub has just called the resume that a gyield queued, for a task
\* that was killed in the meantime.
C8_Witness ==
    /\ DispatchedIntoDead({"callback"})
    /\ killAge[last.g] > 0
    /\ gstate[last.g] = "dead"

SwitchQueued(q, t) == \E i \in 1..Len(q) : q[i] = SwitchCb(t)

\* C10: a task suspended in gyield has its resume queued: for the next iteration
\* until that begins, then among the callbacks this iteration is firing, which it
\* does not leave before it has fired them all; the task is resumed by that callback
\* only, not in the iteration of its gyield, and after every greenlet whose resume
\* was queued before its own has had its turn.
C10_GyieldNextIteration ==
    /\ [](\A t \in Tasks :
            (gstate[t] = "suspended" /\ pc[t] = "gyield") =>
                IF age[t] = 0
                THEN SwitchQueued(callbacks, t)
                ELSE phase = "callbacks" /\ SwitchQueued(firing, t))
    /\ [][ \A t \in Tasks :
              (gstate[t] = "suspended" /\ pc[t] = "gyield" /\ gstate'[t] = "running") =>
                  /\ last'.op = "wake" /\ last'.via = "callback" /\ last'.g = t
                  /\ age[t] = 1
                  /\ ahead[t] \ {t} = {} ]_vars

\* C10 witness: a task has just been resumed from gyield, by the callback of the
\* iteration after its gyield, while another task that yielded after it still waits.
C10_Witness ==
    /\ last.op = "wake"
    /\ last.at = "gyield"
    /\ last.via = "callback"
    /\ gstate[last.g] = "running"
    /\ \E t \in Tasks : t # last.g /\ gstate[t] = "suspended" /\ pc[t] = "gyield"
                        /\ SwitchQueued(firing, t)

\* ------------------------------------------------ the order of dispatch
\* The place of g's resume in queue q, 0 when q does not hold it.
Place(q, g) ==
    IF SwitchQueued(q, g)
    THEN CHOOSE i \in 1..Len(q) : q[i] = SwitchCb(g) /\ \A j \in 1..(i - 1) : q[j] # SwitchCb(g)
    ELSE 0

\* The callbacks still to fire, in the order they were scheduled.
Scheduled == firing \o callbacks

ArmedFor(tm, g) == {id \in TimerIds : tm[id].state = "armed" /\ tm[id].target = g}

\* C12: a timer's callback is called only while the timer is armed, once, and never
\* after its cancel; cancel on a timer that has fired or was cancelled changes
\* nothing. So a task that is not inside a trampoline call has no armed timer, and
\* the timeout exception is thrown only into a task suspended in the trampoline call
\* that scheduled the timer: when that call ends, by readiness, by a kill or by its
\* timer, no timer stays armed for the task, also with another task's timer expiring
\* in the same iteration.
C12_CancelledNeverFires ==
    /\ [](\A t \in Tasks : ~InTrampoline(t) => ArmedFor(timers, t) = {})
    /\ [][ /\ last'.via = "timer" =>
                LET id == last'.n
                    fired == [timers EXCEPT ![id].state = "fired"]
                IN  /\ timers[id].state = "armed"
                    /\ InTrampoline(last'.g)
                    /\ tramp[last'.g].timer = id
                    /\ timers'[id].state # "armed"
                    /\ cancel(fired, id) = fired
           /\ \A t \in Tasks :
                (InTrampoline(t) /\ pc'[t] # "trampoline") =>
                    /\ ArmedFor(timers', t) = {}
                    /\ tramp[t].timer # None =>
                          LET c == cancel(timers, tramp[t].timer)
                          IN  /\ c[tramp[t].timer].state # "armed"
                              /\ cancel(c, tramp[t].timer) = c
           /\ \A id \in TimerIds :
                (timers[id].state # "armed" /\ timers'[id].state = "armed") =>
                    /\ last'.op = "trampoline" /\ last'.res = "ok"
                    /\ tramp'[last'.g].timer = id
                    /\ timers[id].state = "free" ]_vars

\* C12 witness: a trampoline call with a timeout has just ended by its timer, the
\* task caught the exception and runs, and in the same iteration the timer of
\* another task's call is still armed.
C12_Witness ==
    /\ last.op = "wake"
    /\ last.via = "timer"
    /\ last.res = Timeout
    /\ gstate[last.g] = "running"
    /\ phase = "timers"
    /\ \E t \in Tasks : t # last.g /\ InTrampoline(t) /\ ArmedFor(timers, t) # {}

\* C14: a trampoline call made in the hub greenlet fails trampoline's own assertion,
\* before a timer is scheduled or a listener registered: it raises AssertionError
\* and the timers and the registry are never touched.
C14_RejectedByPrecondition ==
    [][ last'.op = "hub_trampoline" =>
          /\ last'.res = "AssertionError"
          /\ last'.at = "precondition"
          /\ last'.n = None
          /\ UNCHANGED <<listeners, lobj, timers>> ]_vars

\* The ancestors of g that are within n steps of it.
RECURSIVE Chain(_, _, _)
Chain(par, g, n) ==
    IF n = 0 \/ par[g] = None THEN {} ELSE {par[g]} \cup Chain(par, par[g], n - 1)

Acyclic(par) == \A g \in Greenlets : g \notin Chain(par, g, Cardinality(Greenlets))

\* C15: the parent relation never has a cycle. A switch() by greenlet T that is not
\* the hub greenlet goes into the hub greenlet; T's parent becomes the hub greenlet,
\* unless T is the hub greenlet's parent or one of its ancestors further up (the new
\* parent would close a cycle): then T's parent stays as it was.
C15_NoParentCycle ==
    /\ []Acyclic(parent)
    /\ [][ (last'.op \in {"switch", "gyield", "trampoline"} /\ last'.res = "ok") =>
             LET T == last'.g
                 H == hubGreenlet'
                 before == [parent' EXCEPT ![T] = parent[T]]
             IN  /\ current' = H
                 /\ gstate'[H] = "running"
                 /\ gstate'[T] = "suspended"
                 /\ parent'[T] = IF T \in Chain(before, H, Cardinality(Greenlets))
                                 THEN parent[T]
                                 ELSE H ]_vars

\* C15 witness: the main greenlet has just switched into a hub greenlet whose parent
\* is main's child, so main is an ancestor of the hub greenlet without being its
\* parent, and main's parent is as it was.
C15_Witness ==
    /\ last.op = "switch"
    /\ last.g = Main
    /\ last.res = "ok"
    /\ current = hubGreenlet
    /\ parent[hubGreenlet] = Child
    /\ parent[Child] = Main
    /\ parent[Main] = None

\* ------------------------------------------- the registry's well-formedness
\* C16: the registry has the two buckets READ and WRITE; no key maps to None; every
\* entry listeners[d][fd] is a listener whose evtype is d and whose fd is fd; the
\* listener an add installs has the caller of the add as its greenlet, and a
\* listener that stays registered is not changed.
C16_WellFormed ==
    /\ [](/\ DOMAIN listeners = {READ, WRITE}
          /\ \A d \in Dirs, fd \in FDs :
                /\ listeners[d][fd] # None
                /\ InBucket(listeners[d], fd) =>
                      /\ listeners[d][fd] \in LIds
                      /\ lobj[listeners[d][fd]].evtype = d
                      /\ lobj[listeners[d][fd]].fd = fd
                      /\ lobj[listeners[d][fd]].greenlet \in Tasks)
    /\ [][ /\ (last'.op = "add" /\ last'.res = "none") =>
                /\ listeners'[last'.evtype][last'.fd] = last'.id
                /\ lobj'[last'.id] =
                      [evtype |-> last'.evtype, fd |-> last'.fd, greenlet |-> last'.g]
           /\ \A id \in LIds :
                (\E d \in Dirs, fd \in FDs : listeners[d][fd] = id /\ listeners'[d][fd] = id) =>
                    lobj'[id] = lobj[id] ]_vars

\* C16 witness: a remove has just deleted the key of its listener, and the listener
\* another task registered for the other direction of the fd is still registered.
C16_Witness ==
    /\ last.op = "remove"
    /\ ~InBucket(listeners[last.evtype], last.fd)
    /\ \E d \in Dirs :
          /\ d # last.evtype
          /\ InBucket(listeners[d], last.fd)
          /\ lobj[listeners[d][last.fd]].greenlet # last.g

\* ------------------------------------------------ pyuv_cffi: handles
Count(s, x) == Cardinality({k \in 1..Len(s) : s[k] = x})

\* list.remove(x): the first x is taken out; ValueError when the list has no x.
list_remove(s, x) ==
    IF Count(s, x) = 0
    THEN [err |-> "ValueError", list |-> s]
    ELSE LET i == CHOOSE k \in 1..Len(s) : s[k] = x /\ \A j \in 1..(k - 1) : s[j] # x
         IN  [err |-> "none", list |-> SubSeq(s, 1, i - 1) \o SubSeq(s, i + 1, Len(s))]

\* Handle.__init__, called by Poll.__init__: the attributes of a fresh handle.
Handle_init(h) == [NoHandle EXCEPT !.made = TRUE]

\* libuv's uv_close(handle, close_cb): the handle is closing at once, its watcher is
\* stopped, and close_cb is called by the loop later.
uv_close(h, cb) == [h EXCEPT !.closing = TRUE, !.polling = FALSE, !.pending = Append(@, cb)]

\* Handle.close without the test of _close_called.
Handle_close_always(h, callback) == [uv_close(h, callback) EXCEPT !._close_called = TRUE]

\* Handle.close(callback): nothing when close was called before; else cb_wrapper,
\* which holds callback, is given to uv_close, and _close_called is set.
Handle_close(h, callback) ==
    IF h._close_called
    THEN h
    ELSE [uv_close(h, callback) EXCEPT !._close_called = TRUE]

\* cb_wrapper of Handle.close, for handle i: the user's callback if there is one,
\* then alive.remove(self) and the two ffi callbacks are dropped.
cb_wrapper(h, al, i) ==
    LET callback == Head(h.pending)
        h1 == [h EXCEPT !.pending = Tail(@),
                        !.closed = @ + 1,
                        !.called = IF callback # 0 THEN Append(@, callback) ELSE @]
        r == list_remove(al, i)
    IN  IF r.err # "none"
        THEN [handle |-> h1, alive |-> al, err |-> r.err]
        ELSE [handle |-> [h1 EXCEPT !._ffi_cb = FALSE], alive |-> r.list, err |-> "none"]

\* Poll.start(events, callback): the ffi callback is made and uv_poll_start called.
Poll_start(h) == [h EXCEPT !._ffi_cb = TRUE, !.polling = TRUE, !.lastcall = "start"]

\* Poll.stop that does not look at _stop_called.
Poll_stop_always(h, err) ==
    IF err < 0
    THEN [handle |-> [h EXCEPT !._ffi_cb = FALSE], res |-> "Exception"]
    ELSE [handle |-> [h EXCEPT !._ffi_cb = FALSE, !.polling = FALSE, !._stop_called = TRUE,
                               !.lastcall = "stop"],
          res |-> "returned"]

\* Poll.stop(): nothing when stop was called before; else uv_poll_stop, whose error
\* (err < 0) is raised; _stop_called is set when it succeeded.
Poll_stop(h, err) ==
    IF h._stop_called
    THEN [handle |-> [h EXCEPT !.lastcall = "stop"], res |-> "returned"]
    ELSE Poll_stop_always(h, err)

UvErrs == {0, -1}

\* Poll(loop, fd) is constructed: Handle.__init__ appends it to alive.
HandleNew(i) ==
    /\ ~handle[i].made
    /\ handle' = [handle EXCEPT ![i] = Handle_init(@)]
    /\ alive' = Append(alive, i)
    /\ last' = [op |-> "new", h |-> i, res |-> "returned", cb |-> 0]
    /\ UNCHANGED <<hubVars, loop, threadVars>>

\* close(callback) is called on handle i, with a callback of its own (w) or without.
HandleClose(i, w) ==
    /\ handle[i].made
    /\ Len(handle[i].closes) < MaxCloses
    /\ LET callback == IF w THEN Len(handle[i].closes) + 1 ELSE 0
       IN  /\ handle' = [handle EXCEPT
                            ![i] = [Handle_close(@, callback) EXCEPT
                                       !.closes = Append(@, callback)]]
           /\ last' = [op |-> "close", h |-> i, res |-> "returned", cb |-> callback]
    /\ UNCHANGED <<hubVars, alive, loop, threadVars>>

\* The loop calls a close callback that uv_close was given for handle i.
CloseCallback(i) ==
    /\ handle[i].pending # <<>>
    /\ LET r == cb_wrapper(handle[i], alive, i)
       IN  /\ handle' = [handle EXCEPT ![i] = r.handle]
           /\ alive' = r.alive
           /\ last' = [op |-> "close_cb", h |-> i, res |-> r.err, cb |-> Head(handle[i].pending)]
    /\ UNCHANGED <<hubVars, loop, threadVars>>

\* start(events, callback) is called on a handle that is not closing.
PollStart(i) ==
    /\ handle[i].made
    /\ ~handle[i].closing
    /\ handle' = [handle EXCEPT ![i] = Poll_start(@)]
    /\ last' = [op |-> "start", h |-> i, res |-> "returned", cb |-> 0]
    /\ UNCHANGED <<hubVars, alive, loop, threadVars>>

\* stop() is called on a handle that is not closing; err is what uv_poll_stop returns.
PollStop(i, err) ==
    /\ handle[i].made
    /\ ~handle[i].closing
    /\ LET r == Poll_stop(handle[i], err)
       IN  /\ handle' = [handle EXCEPT ![i] = r.handle]
           /\ last' = [op |-> "stop", h |-> i, res |-> r.res, cb |-> 0]
    /\ UNCHANGED <<hubVars, alive, loop, threadVars>>

\* The loop finds the fd of watcher i ready and calls its readiness callback.
PollReady(i) ==
    /\ handle[i].polling
    /\ handle[i]._ffi_cb
    /\ last' = [op |-> "poll_cb", h |-> i, res |-> "returned", cb |-> 0]
    /\ UNCHANGED <<hubVars, alive, handle, loop, threadVars>>

HandleNext ==
    \/ \E i \in HandleIds : HandleNew(i)
    \/ \E i \in HandleIds, w \in BOOLEAN : HandleClose(i, w)
    \/ \E i \in HandleIds : CloseCallback(i)
    \/ \E i \in HandleIds : PollStart(i)
    \/ \E i \in HandleIds, err \in UvErrs : PollStop(i, err)
    \/ \E i \in HandleIds : PollReady(i)

SpecHandle == Init /\ [][HandleNext]_vars

\* The handles' construction and closing on their own.
CloseNext ==
    \/ \E i \in HandleIds : HandleNew(i)
    \/ \E i \in HandleIds, w \in BOOLEAN : HandleClose(i, w)
    \/ \E i \in HandleIds : CloseCallback(i)

SpecClose == Init /\ [][CloseNext]_vars

\* alive without handle i, the others in their order.
Without(al, i) == SelectSeq(al, LAMBDA x : x # i)

C17_StopLeavesStopped ==
    /\ \A i \in HandleIds : handle[i].lastcall = "stop" => ~handle[i].polling
    /\ last.op = "poll_cb" => handle[last.h].lastcall # "stop"

\* -------------------------------------------------- pyuv_cffi: loops
\* Loop.__init__: loop_h from pyuv_loop_new(), _loop_h_allocated = True.
Loop_init(l) == [l EXCEPT !.made = "new", !._loop_h_allocated = "True"]

\* Loop.default_loop: Loop.__new__ (no __init__), loop_h from uv_default_loop(), and
\* the attribute loop_h_allocated = False.
default_loop(l) == [l EXCEPT !.made = "default", !.loop_h_allocated = "False"]

\* Loop._free: reads self._loop_h_allocated (AttributeError when it was never
\* assigned); when true, pyuv_loop_del(loop_h) and the attribute becomes False.
_free(l) ==
    IF l._loop_h_allocated = "unset"
    THEN [loop |-> l, err |-> "AttributeError"]
    ELSE IF l._loop_h_allocated = "True"
    THEN [loop |-> [l EXCEPT !.released = @ + 1, !._loop_h_allocated = "False"],
          err |-> "none"]
    ELSE [loop |-> l, err |-> "none"]

\* Loop()
LoopNew(i) ==
    /\ loop[i].made = "none"
    /\ loop' = [loop EXCEPT ![i] = Loop_init(@)]
    /\ last' = [op |-> "Loop", l |-> i, res |-> "none", del |-> FALSE]
    /\ UNCHANGED <<hubVars, alive, handle, threadVars>>

\* Loop.default_loop()
LoopDefault(i) ==
    /\ loop[i].made = "none"
    /\ loop' = [loop EXCEPT ![i] = default_loop(@)]
    /\ last' = [op |-> "default_loop", l |-> i, res |-> "none", del |-> FALSE]
    /\ UNCHANGED <<hubVars, alive, handle, threadVars>>

\* _free() is called on loop object i: by the program, or by __del__ when the object
\* is collected (del), after which there is no further call on it.
LoopFree(i, del) ==
    /\ loop[i].made \in {"new", "default"}
    /\ LET r == _free(loop[i])
       IN  /\ loop' = [loop EXCEPT ![i] = IF del THEN [r.loop EXCEPT !.made = "deleted"]
                                                 ELSE r.loop]
           /\ last' = [op |-> "_free", l |-> i, res |-> r.err, del |-> del]
    /\ UNCHANGED <<hubVars, alive, handle, threadVars>>

LoopNext ==
    \/ \E i \in LoopIds : LoopNew(i)
    \/ \E i \in LoopIds : LoopDefault(i)
    \/ \E i \in LoopIds, del \in BOOLEAN : LoopFree(i, del)

SpecLoop == Init /\ [][LoopNext]_vars

\* C18: _free() ends without an error on every Loop; on a Loop made by Loop() the
\* first _free() releases the native loop and every later one releases nothing; on a
\* Loop from default_loop() it releases nothing. No native loop is released twice.
C18_FreeOnceNoError ==
    /\ [](\A i \in LoopIds : loop[i].released <= 1)
    /\ [][ last'.op = "_free" =>
             LET i == last'.l
             IN  /\ last'.res = "none"
                 /\ loop'[i].released =
                       IF loop[i].made = "new" /\ loop[i].released = 0 THEN 1
                       ELSE loop[i].released ]_vars

\* ------------------------------------------------ guv.green.thread
\* __thread_body on entry: __threadcount += 1
__thread_body_enter(n) == n + 1

\* A finally clause that leaves the count alone.
__thread_body_finally_nothing(n) == n

\* __thread_body's finally clause: __threadcount -= 1
__thread_body_finally(n) == n - 1

\* _count()
_count == __threadcount

\* At most one greenlet runs at a time: a thread body can be entered or resumed only
\* while no other thread body is running.
NoneRunning == \A i \in ThreadIds : thread[i] # "running"

\* start_new_thread(function, args): spawn_n queues __thread_body in a new greenlet;
\* the body has not begun.
start_new_thread(i) ==
    /\ thread[i] = "none"
    /\ thread' = [thread EXCEPT ![i] = "spawned"]
    /\ last' = [op |-> "start_new_thread", t |-> i, res |-> "none"]
    /\ UNCHANGED <<hubVars, uvVars, __threadcount>>

\* The hub switches into the new greenlet: __thread_body begins and calls func.
BodyBegin(i) ==
    /\ thread[i] = "spawned"
    /\ NoneRunning
    /\ __threadcount' = __thread_body_enter(__threadcount)
    /\ thread' = [thread EXCEPT ![i] = "running"]
    /\ last' = [op |-> "begin", t |-> i, res |-> "none"]
    /\ UNCHANGED <<hubVars, uvVars>>

\* func switches to the hub (it sleeps, yields or waits).
BodySuspend(i) ==
    /\ thread[i] = "running"
    /\ thread' = [thread EXCEPT ![i] = "suspended"]
    /\ last' = [op |-> "suspend", t |-> i, res |-> "none"]
    /\ UNCHANGED <<hubVars, uvVars, __threadcount>>

\* The hub switches back into func.
BodyResume(i) ==
    /\ thread[i] = "suspended"
    /\ NoneRunning
    /\ thread' = [thread EXCEPT ![i] = "running"]
    /\ last' = [op |-> "resume", t |-> i, res |-> "none"]
    /\ UNCHANGED <<hubVars, uvVars, __threadcount>>

\* func returns, or raises (e), in the running body: the finally clause runs.
BodyEnd(i, e) ==
    /\ thread[i] = "running"
    /\ __threadcount' = __thread_body_finally(__threadcount)
    /\ thread' = [thread EXCEPT ![i] = "finished"]
    /\ last' = [op |-> "end", t |-> i, res |-> e]
    /\ UNCHANGED <<hubVars, uvVars>>

\* An exception is thrown into the thread's greenlet (kill): a greenlet whose body
\* has not begun dies without running it; one suspended in func has the exception
\* raised there, and the finally clause runs.
BodyKill(i) ==
    /\ thread[i] \in {"spawned", "suspended"}
    /\ NoneRunning
    /\ __threadcount' = IF thread[i] = "suspended"
                        THEN __thread_body_finally(__threadcount)
                        ELSE __threadcount
    /\ thread' = [thread EXCEPT ![i] = "finished"]
    /\ last' = [op |-> "kill", t |-> i, res |-> thread[i]]
    /\ UNCHANGED <<hubVars, uvVars>>

ThreadNext ==
    \/ \E i \in ThreadIds : start_new_thread(i)
    \/ \E i \in ThreadIds : BodyBegin(i)
    \/ \E i \in ThreadIds : BodySuspend(i)
    \/ \E i \in ThreadIds : BodyResume(i)
    \/ \E i \in ThreadIds, e \in {"none", "Exception"} : BodyEnd(i, e)
    \/ \E i \in ThreadIds : BodyKill(i)

SpecThread == Init /\ [][ThreadNext]_vars

\* The thread bodies that have begun and have not finished.
Begun == {i \in ThreadIds : thread[i] \in {"running", "suspended"}}

\* C19: _count() is the number of thread bodies that have begun and not finished,
\* and is never negative; it goes up by one exactly when a body begins (not at
\* start_new_thread) and down by one exactly when a body that had begun ends, by
\* returning or by an exception.
C19_CountIsBegun ==
    /\ [](_count = Cardinality(Begun) /\ _count >= 0)
    /\ [][ /\ last'.op = "start_new_thread" => __threadcount' = __threadcount
           /\ last'.op = "begin" => __threadcount' = __threadcount + 1
           /\ (last'.op = "end" \/ (last'.op = "kill" /\ last'.res = "suspended")) =>
                 __threadcount' = __threadcount - 1
           /\ last'.op \in {"suspend", "resume"} => __threadcount' = __threadcount ]_vars

\* C19 witness: a body has just ended by an exception while another body is
\* suspended and a third thread has been started and has not begun.
C19_Witness ==
    /\ last.op = "end"
    /\ last.res = "Exception"
    /\ \E i \in ThreadIds : thread[i] = "suspended"
    /\ \E i \in ThreadIds : thread[i] = "spawned"
    /\ _count = 1

====
